---- MODULE Spec2Model ----
(***************************************************************************)
(* Model of caltechlibrary/oclc_reconciliation: the record projector, the  *)
(* matcher, the merger, the scanner and the main pipelines of              *)
(*   src/reconcile.go              two passes (strict, then Levenshtein)   *)
(*   src/reconcile2/reconcile2.go  one strict pass with a list of already  *)
(*                                 processed identifiers                   *)
(*   src/unnamed/part_000          one pass, rows projected on the fly     *)
(* Record, RowToRecord, countTrue, Match, Merge and Scan of reconcile2.go  *)
(* are textually the same as those of reconcile.go (lines 20-187 against   *)
(* 16-183) and share one definition here.  The definitions that model      *)
(* part_000 carry the suffix 1.                                            *)
(*                                                                         *)
(* A Go string is modelled as a sequence of one-character strings, so that *)
(* trimming, lower-casing and edit distance are computed, not assumed.     *)
(***************************************************************************)
EXTENDS Integers, Sequences, FiniteSets, TLC

VARIABLES
    pc,            \* position of the program (or of the function under test)
    oclcTable,     \* rows decoded from data/rerun-oclc-all.csv (header first)
    tindTable,     \* rows decoded from data/rerun-tind-all.csv (header first)
    oclc,          \* []*Record of the targets
    tind,          \* []*Record of the candidates
    matchedIDs,    \* reconcile2.go: identifiers read from matched-ids.csv
    idx,           \* position of the running range loop
    unmatched,     \* reconcile.go: indexes left without a strict match
    missing,       \* reconcile.go: indexes left without any match
    matchedCnt,
    unmatchedCnt,
    oclcCnt,
    out,           \* what was written to os.Stdout after the header line
    scanLog,       \* history: the calls of Scan made so far, with their result
    args,          \* arguments of the function under test
    ret            \* its result

vars == <<pc, oclcTable, tindTable, oclc, tind, matchedIDs, idx, unmatched,
          missing, matchedCnt, unmatchedCnt, oclcCnt, out, scanLog, args, ret>>

pipeVars == <<oclcTable, tindTable, oclc, tind, matchedIDs, idx, unmatched,
              missing, matchedCnt, unmatchedCnt, oclcCnt, out, scanLog>>

-----------------------------------------------------------------------------
(* Bounds of the model *)

MaxTitleLen == 2    \* longest title of the exhaustive title pairs
MaxRowLen == 3      \* longest row handed to RowToRecord on its own
MaxTargets == 2     \* most data rows of the target table
MaxCands == 2       \* most data rows of the candidate table

-----------------------------------------------------------------------------
(* Strings *)

E == <<>>           \* the empty string

Chars == {"a", "A", "b", " "}

RECURSIVE StringsOfLen(_)
StringsOfLen(n) ==
    IF n = 0 THEN {E}
    ELSE {Append(s, ch) : s \in StringsOfLen(n - 1), ch \in Chars}

RECURSIVE StringsUpTo(_)
StringsUpTo(n) ==
    IF n = 0 THEN {E} ELSE StringsOfLen(n) \cup StringsUpTo(n - 1)

\* strings.ToLower, one character
LowerChar(ch) == CASE ch = "A" -> "a" [] ch = "B" -> "b" [] OTHER -> ch

\* strings.ToLower
ToLower(s) == [k \in 1..Len(s) |-> LowerChar(s[k])]

IsSpace(ch) == ch = " "

RECURSIVE TrimLeft(_)
TrimLeft(s) ==
    IF s # E /\ IsSpace(Head(s)) THEN TrimLeft(Tail(s)) ELSE s

RECURSIVE TrimRight(_)
TrimRight(s) ==
    IF s # E /\ IsSpace(s[Len(s)]) THEN TrimRight(SubSeq(s, 1, Len(s) - 1))
    ELSE s

\* strings.TrimSpace
TrimSpace(s) == TrimRight(TrimLeft(s))

Min2(x, y) == IF x <= y THEN x ELSE y

\* the edit distance of two strings under the three costs
RECURSIVE Distance(_, _, _, _, _)
Distance(a, b, insertCost, deleteCost, substituteCost) ==
    IF a = E THEN Len(b) * insertCost
    ELSE IF b = E THEN Len(a) * deleteCost
    ELSE IF Head(a) = Head(b)
         THEN Distance(Tail(a), Tail(b), insertCost, deleteCost, substituteCost)
    ELSE Min2(Distance(Tail(a), Tail(b), insertCost, deleteCost, substituteCost)
                  + substituteCost,
              Min2(Distance(a, Tail(b), insertCost, deleteCost, substituteCost)
                       + insertCost,
                   Distance(Tail(a), b, insertCost, deleteCost, substituteCost)
                       + deleteCost))

\* datatools.Levenshtein(src, target, insertCost, deleteCost, substituteCost,
\* caseSensitive): both strings are lower-cased first unless caseSensitive
Levenshtein(src, target, insertCost, deleteCost, substituteCost, caseSensitive) ==
    IF caseSensitive
    THEN Distance(src, target, insertCost, deleteCost, substituteCost)
    ELSE Distance(ToLower(src), ToLower(target),
                  insertCost, deleteCost, substituteCost)

-----------------------------------------------------------------------------
(* Record *)

TextFields == {"MaterialType", "MonoOrSerial", "Date1", "Date2", "Form",
               "Tind", "OCLC", "ISBN", "ISSN", "Title", "SubTitle", "Author",
               "Publisher", "Year", "Pagination"}

\* new(Record): every string empty, MatchedCount 0
NewRecord ==
    [MaterialType |-> E, MonoOrSerial |-> E, Date1 |-> E, Date2 |-> E,
     Form |-> E, Tind |-> E, OCLC |-> E, ISBN |-> E, ISSN |-> E, Title |-> E,
     SubTitle |-> E, Author |-> E, Publisher |-> E, Year |-> E,
     Pagination |-> E, MatchedCount |-> 0]

\* Record.String: the fifteen strings, each quoted, then the count, in the
\* order of the format.  %q is one-to-one, so a line is kept as the tuple of
\* the values it prints.
String(r) ==
    <<r.MaterialType, r.MonoOrSerial, r.Date1, r.Date2, r.Form,
      r.Tind, r.OCLC, r.ISBN, r.ISSN, r.Title,
      r.SubTitle, r.Author, r.Publisher, r.Year,
      r.Pagination, r.MatchedCount>>

\* the field a column name selects in RowToRecord's switch ("" for none)
ColumnField(cName) ==
    CASE cName = "material type" -> "MaterialType"
      [] cName = "mono or serial" -> "MonoOrSerial"
      [] cName = "date1" -> "Date1"
      [] cName = "date2" -> "Date2"
      [] cName = "form" -> "Form"
      [] cName = "tind" -> "Tind"
      [] cName = "oclc" -> "OCLC"
      [] cName = "isbn" -> "ISBN"
      [] cName = "issn" -> "ISSN"
      [] cName = "title" -> "Title"
      [] cName = "subtitle" -> "SubTitle"
      [] cName = "author" -> "Author"
      [] cName = "publisher" -> "Publisher"
      [] cName = "year" -> "Year"
      [] cName = "pagination" -> "Pagination"
      [] OTHER -> ""

\* The range loop of RowToRecord from column colNo (1-based) on.  row[colNo]
\* of a row that has no such slot is a run-time panic, which ends the program:
\* ok is FALSE then and rec is what had been assigned so far.
RECURSIVE RowToRecordFrom(_, _, _, _)
RowToRecordFrom(columnNames, row, colNo, rec) ==
    IF colNo > Len(columnNames) THEN [ok |-> TRUE, rec |-> rec]
    ELSE IF ColumnField(columnNames[colNo]) = ""
         THEN RowToRecordFrom(columnNames, row, colNo + 1, rec)
    ELSE IF colNo > Len(row) THEN [ok |-> FALSE, rec |-> rec]
    ELSE RowToRecordFrom(columnNames, row, colNo + 1,
             [rec EXCEPT ![ColumnField(columnNames[colNo])] = row[colNo]])

RowToRecord(columnNames, row) == RowToRecordFrom(columnNames, row, 1, NewRecord)

oclcColumns ==
    <<"material type", "mono or serial", "date1", "date2", "form", "isbn",
      "issn", "oclc", "title", "subtitle", "author", "publisher", "year",
      "pagination">>

tindColumns ==
    <<"material type", "mono or serial", "date1", "date2", "form", "tind",
      "oclc", "isbn", "issn", "title", "subtitle", "author", "publisher",
      "year", "pagination">>

-----------------------------------------------------------------------------
(* Matcher *)

RECURSIVE countTrue(_)
countTrue(booleans) ==
    IF booleans = <<>> THEN 0
    ELSE (IF Head(booleans) THEN 1 ELSE 0) + countTrue(Tail(booleans))

FieldComparisons_WithOCLC(target, source) ==
    <<target.MaterialType = source.MaterialType,
      target.MonoOrSerial = source.MonoOrSerial,
      target.Date1 = source.Date1, target.Date2 = source.Date2,
      target.Form = source.Form, target.OCLC = source.OCLC,
      target.ISBN = source.ISBN, target.ISSN = source.ISSN,
      target.Publisher = source.Publisher,
      target.Year = source.Year>>

\* the nine comparisons every call of countTrue in Match is given
FieldComparisons(target, source) ==
    <<target.MaterialType = source.MaterialType,
      target.MonoOrSerial = source.MonoOrSerial,
      target.Date1 = source.Date1, target.Date2 = source.Date2,
      target.Form = source.Form,
      target.ISBN = source.ISBN, target.ISSN = source.ISSN,
      target.Publisher = source.Publisher,
      target.Year = source.Year>>

Match_AtLeastFive(target, source, withLevenshtein) ==
    IF withLevenshtein
    THEN Levenshtein(target.Title, source.Title, 1, 1, 1, FALSE) <= 1
         /\ countTrue(FieldComparisons(target, source)) >= 5
    ELSE TrimSpace(target.Title) = TrimSpace(source.Title)
         /\ countTrue(FieldComparisons(target, source)) >= 5

Match_CaseSensitive(target, source, withLevenshtein) ==
    IF withLevenshtein
    THEN Levenshtein(target.Title, source.Title, 1, 1, 1, TRUE) <= 1
         /\ countTrue(FieldComparisons(target, source)) > 5
    ELSE TrimSpace(target.Title) = TrimSpace(source.Title)
         /\ countTrue(FieldComparisons(target, source)) > 5

\* Match of reconcile.go and of reconcile2.go
Match(target, source, withLevenshtein) ==
    IF withLevenshtein
    THEN Levenshtein(target.Title, source.Title, 1, 1, 1, FALSE) <= 1
         /\ countTrue(FieldComparisons(target, source)) > 5
    ELSE \/ /\ target.Title = source.Title
            /\ countTrue(FieldComparisons(target, source)) > 5
         \/ /\ TrimSpace(target.Title) = TrimSpace(source.Title)
            /\ countTrue(FieldComparisons(target, source)) > 5

\* Match of part_000: one mode, trimmed equality or a case-sensitive distance
\* of exactly 1
Match1(target, source) ==
    \/ /\ TrimSpace(target.Title) = TrimSpace(source.Title)
       /\ countTrue(FieldComparisons(target, source)) > 5
    \/ /\ Levenshtein(target.Title, source.Title, 1, 1, 1, TRUE) = 1
       /\ countTrue(FieldComparisons(target, source)) > 5

-----------------------------------------------------------------------------
(* Merger.  Both arguments are pointers: the result names the two objects    *)
(* as the call leaves them and which of them is returned.                   *)

Merge_Overwrites(target, source) ==
    [target |-> target,
     source |-> [source EXCEPT !.Tind = IF target.Tind # E THEN target.Tind ELSE @,
                               !.OCLC = IF target.OCLC # E THEN target.OCLC ELSE @],
     ret |-> "source"]

\* Merge of reconcile.go and of reconcile2.go: fills source, returns source
Merge(target, source) ==
    [target |-> target,
     source |-> [source EXCEPT !.Tind = IF @ = E THEN target.Tind ELSE @,
                               !.OCLC = IF @ = E THEN target.OCLC ELSE @],
     ret |-> "source"]

\* Merge of part_000: fills target, returns target
Merge1(target, source) ==
    [target |-> [target EXCEPT !.Tind = IF @ = E THEN source.Tind ELSE @,
                               !.OCLC = IF @ = E THEN source.OCLC ELSE @],
     source |-> source,
     ret |-> "target"]

\* the object a call of Merge or Merge1 returned
Returned(m) == IF m.ret = "source" THEN m.source ELSE m.target

-----------------------------------------------------------------------------
(* Scanner of reconcile.go and of reconcile2.go *)

\* The first loop of Scan from candidate j on: sources as the calls of Merge
\* have left them so far, matched the candidates appended so far (Merge
\* returns its source, so matched holds the pointers sources[j]).
RECURSIVE ScanLoop(_, _, _, _, _)
ScanLoop(target, sources, withLevenshtein, j, matched) ==
    IF j > Len(sources) THEN [sources |-> sources, matched |-> matched]
    ELSE IF Match(target, sources[j], withLevenshtein)
         THEN ScanLoop(target,
                       [sources EXCEPT ![j] = Merge(target, sources[j]).source],
                       withLevenshtein, j + 1, Append(matched, j))
         ELSE ScanLoop(target, sources, withLevenshtein, j + 1, matched)

Scan_CountsPosition(target, sources, withLevenshtein) ==
    LET loop == ScanLoop(target, sources, withLevenshtein, 1, <<>>)
        mCnt == Len(loop.matched)
    IN  [sources |-> loop.sources,
         count |-> mCnt,
         lines |-> [k \in 1..mCnt |->
                        String([loop.sources[loop.matched[k]]
                                   EXCEPT !.MatchedCount = k])]]

\* Scan: the candidates as the call leaves them, the number of matches and
\* the lines of the returned string (none for the empty string)
Scan(target, sources, withLevenshtein) ==
    LET loop == ScanLoop(target, sources, withLevenshtein, 1, <<>>)
        mCnt == Len(loop.matched)
        isMatched(j) == \E k \in 1..mCnt : loop.matched[k] = j
        final == [j \in 1..Len(sources) |->
                     IF isMatched(j)
                     THEN [loop.sources[j] EXCEPT !.MatchedCount = mCnt]
                     ELSE loop.sources[j]]
    IN  [sources |-> final,
         count |-> mCnt,
         lines |-> [k \in 1..mCnt |-> String(final[loop.matched[k]])]]

-----------------------------------------------------------------------------
(* Values the checks draw their inputs from *)

X == <<"a">>
Y == <<"b">>

Designated == {"MaterialType", "MonoOrSerial", "Date1", "Date2", "Form",
               "ISBN", "ISSN", "Publisher", "Year"}

Identifiers == {"Tind", "OCLC"}

\* a record whose designated fields hold v inside D and w outside it
Described(title, D, v, w, tindId, oclcId, author) ==
    [NewRecord EXCEPT
        !.MaterialType = IF "MaterialType" \in D THEN v ELSE w,
        !.MonoOrSerial = IF "MonoOrSerial" \in D THEN v ELSE w,
        !.Date1 = IF "Date1" \in D THEN v ELSE w,
        !.Date2 = IF "Date2" \in D THEN v ELSE w,
        !.Form = IF "Form" \in D THEN v ELSE w,
        !.ISBN = IF "ISBN" \in D THEN v ELSE w,
        !.ISSN = IF "ISSN" \in D THEN v ELSE w,
        !.Publisher = IF "Publisher" \in D THEN v ELSE w,
        !.Year = IF "Year" \in D THEN v ELSE w,
        !.Title = title, !.Tind = tindId, !.OCLC = oclcId, !.Author = author]

TitlePairs ==
    {<<<<"a", "b">>, <<"a", "b">>>>,
     <<<<"a", "b">>, <<" ", "a", "b", " ">>>>,
     <<<<"a", "b">>, <<"A", "b">>>>,
     <<<<"a", "b">>, <<"b">>>>,
     <<<<"a", "b">>, <<"b", "a">>>>,
     <<E, E>>}

\* pairs whose titles run over every string up to MaxTitleLen, all nine
\* fields agreeing
TitleInputs ==
    {[target |-> Described(a, Designated, X, X, E, Y, E),
      source |-> Described(b, Designated, X, X, X, E, E)] :
        a \in StringsUpTo(MaxTitleLen), b \in StringsUpTo(MaxTitleLen)}

\* pairs whose set of agreeing fields runs over every subset of the nine,
\* the source's fields being all X or all empty
FieldInputs ==
    {[target |-> Described(tp[1], D, v, Y, E, Y, E),
      source |-> Described(tp[2], Designated, v, v, X, E, E)] :
        tp \in TitlePairs, D \in SUBSET Designated, v \in {X, E}}

MergeInputs ==
    {[target |-> Described(<<"a">>, Designated, X, X, t1, o1, X),
      source |-> Described(<<"a", " ">>, D, X, Y, t2, o2, Y)] :
        t1 \in {E, X, Y}, o1 \in {E, X, Y}, t2 \in {E, X, Y}, o2 \in {E, X, Y},
        D \in {Designated, Designated \ {"Year", "Form"}}}

ColumnLists ==
    {oclcColumns, tindColumns, <<>>,
     <<"title", "year">>, <<"title", "shelf", "oclc">>,
     <<"shelf", "title">>, <<"tind", "shelf", "barcode">>}

RECURSIVE RowsOfLen(_)
RowsOfLen(n) ==
    IF n = 0 THEN {<<>>}
    ELSE {Append(r, v) : r \in RowsOfLen(n - 1), v \in {E, X, Y}}

RECURSIVE RowsUpTo(_)
RowsUpTo(n) == IF n = 0 THEN {<<>>} ELSE RowsOfLen(n) \cup RowsUpTo(n - 1)

-----------------------------------------------------------------------------
(* The functions on their own: one call on arguments drawn at the start *)

PipeIdle ==
    /\ oclcTable = <<>> /\ tindTable = <<>> /\ oclc = <<>> /\ tind = <<>>
    /\ matchedIDs = {} /\ idx = 0 /\ unmatched = <<>> /\ missing = <<>>
    /\ matchedCnt = 0 /\ unmatchedCnt = 0 /\ oclcCnt = 0
    /\ out = <<>> /\ scanLog = <<>>

InitMatch ==
    /\ pc = "ready"
    /\ (args \in TitleInputs \/ args \in FieldInputs)
    /\ ret = [fn |-> "none", withLevenshtein |-> FALSE, val |-> FALSE]
    /\ PipeIdle

CallMatch ==
    /\ pc = "ready"
    /\ \E w \in BOOLEAN :
          ret' = [fn |-> "Match", withLevenshtein |-> w,
                  val |-> Match(args.target, args.source, w)]
    /\ pc' = "returned"
    /\ UNCHANGED <<args, pipeVars>>

CallMatch1 ==
    /\ pc = "ready"
    /\ ret' = [fn |-> "Match1", withLevenshtein |-> FALSE,
               val |-> Match1(args.target, args.source)]
    /\ pc' = "returned"
    /\ UNCHANGED <<args, pipeVars>>

NextMatch == CallMatch \/ CallMatch1

SpecMatch == InitMatch /\ [][NextMatch]_vars

InitMerge ==
    /\ pc = "ready"
    /\ args \in MergeInputs
    /\ ret = [fn |-> "none", m |-> [target |-> NewRecord, source |-> NewRecord,
                                    ret |-> "source"]]
    /\ PipeIdle

CallMerge ==
    /\ pc = "ready"
    /\ ret' = [fn |-> "Merge", m |-> Merge(args.target, args.source)]
    /\ pc' = "returned"
    /\ UNCHANGED <<args, pipeVars>>

CallMerge1 ==
    /\ pc = "ready"
    /\ ret' = [fn |-> "Merge1", m |-> Merge1(args.target, args.source)]
    /\ pc' = "returned"
    /\ UNCHANGED <<args, pipeVars>>

NextMerge == CallMerge \/ CallMerge1

SpecMerge == InitMerge /\ [][NextMerge]_vars

InitProject ==
    /\ pc = "ready"
    /\ args \in {[columnNames |-> c, row |-> r] :
                    c \in ColumnLists, r \in RowsUpTo(MaxRowLen)}
    /\ ret = [ok |-> TRUE, rec |-> NewRecord]
    /\ PipeIdle

CallRowToRecord ==
    /\ pc = "ready"
    /\ ret' = RowToRecord(args.columnNames, args.row)
    /\ pc' = "returned"
    /\ UNCHANGED <<args, pipeVars>>

NextProject == CallRowToRecord

SpecProject == InitProject /\ [][NextProject]_vars

-----------------------------------------------------------------------------
(* What the claims speak of, stated without the code's algorithms *)

\* the number of designated fields on which two records agree
AgreeCount(r1, r2) == Cardinality({f \in Designated : r1[f] = r2[f]})

\* s without character k
Without(s, k) == [n \in 1..(Len(s) - 1) |-> IF n < k THEN s[n] ELSE s[n + 1]]

\* a and b are equal or one insertion, deletion or substitution apart
WithinOneEdit(a, b) ==
    \/ a = b
    \/ /\ Len(a) = Len(b)
       /\ Cardinality({k \in 1..Len(a) : a[k] # b[k]}) = 1
    \/ /\ Len(a) = Len(b) + 1
       /\ \E k \in 1..Len(a) : Without(a, k) = b
    \/ /\ Len(b) = Len(a) + 1
       /\ \E k \in 1..Len(b) : Without(b, k) = a

\* s is c with blanks, and only blanks, put before and after it
IsCoreOf(c, s) ==
    /\ c = E \/ (c[1] # " " /\ c[Len(c)] # " ")
    /\ \E k \in 0..(Len(s) - Len(c)) :
          /\ \A n \in 1..Len(s) : (n <= k \/ n > k + Len(c)) => s[n] = " "
          /\ \A n \in 1..Len(c) : s[k + n] = c[n]

\* equal once leading and trailing blanks are set aside
TrimmedEqual(a, b) ==
    \E c \in {SubSeq(a, m, n) : m \in 1..(Len(a) + 1), n \in 0..Len(a)} :
        IsCoreOf(c, a) /\ IsCoreOf(c, b)

\* title equivalence of a pass: exact or trimmed in the strict pass,
\* case-insensitive distance at most 1 in the fuzzy pass
TitleEquivalent(fuzzy, a, b) ==
    IF fuzzy THEN WithinOneEdit(ToLower(a), ToLower(b))
    ELSE a = b \/ TrimmedEqual(a, b)

\* C1: Match of reconcile.go returns true exactly when the titles are
\* equivalent under the pass's title mode and more than 5 of the 9
\* designated fields are equal.
C1_MatchIffTitleAndMajority ==
    (pc = "returned" /\ ret.fn = "Match") =>
        ret.val = (/\ TitleEquivalent(ret.withLevenshtein,
                                      args.target.Title, args.source.Title)
                   /\ AgreeCount(args.target, args.source) > 5)

C1_Witness ==
    /\ pc = "returned" /\ ret.fn = "Match" /\ ret.withLevenshtein /\ ret.val
    /\ AgreeCount(args.target, args.source) = 6
    /\ args.target.Title # args.source.Title

\* C2: the record Merge returns has, in each identifier field, the base
\* side's value when that is not empty and the other side's value otherwise,
\* and the base side's value in every other field (the base is the source in
\* reconcile.go and reconcile2.go, the target in part_000).
C2_MergeFillsOnlyEmpty ==
    (pc = "returned" /\ ret.fn \in {"Merge", "Merge1"}) =>
        LET base == IF ret.fn = "Merge" THEN args.source ELSE args.target
            other == IF ret.fn = "Merge" THEN args.target ELSE args.source
            r == Returned(ret.m)
        IN  /\ \A id \in Identifiers :
                  r[id] = IF base[id] # E THEN base[id] ELSE other[id]
            /\ \A f \in (TextFields \ Identifiers) \cup {"MatchedCount"} :
                  r[f] = base[f]

C2_Witness ==
    /\ pc = "returned" /\ ret.fn = "Merge"
    /\ args.source.Tind = E /\ args.target.Tind = X
    /\ Returned(ret.m).Tind = X
    /\ args.source.OCLC = X /\ args.target.OCLC = Y
    /\ Returned(ret.m).OCLC = X

Projected(columnNames, row, f) ==
    LET at == {k \in 1..Len(columnNames) :
                  ColumnField(columnNames[k]) = f /\ k <= Len(row)}
    IN  IF at = {} THEN E
        ELSE row[CHOOSE k \in at : \A n \in at : n <= k]

\* C10: RowToRecord is total: whatever the column names and the row, also a
\* row shorter than the column list, it returns a Record holding for each
\* recognized name the row value at its position and the empty string in
\* every field without column or without row slot.
C10_RowToRecordTotal ==
    pc = "returned" =>
        /\ ret.ok
        /\ \A f \in TextFields :
              ret.rec[f] = Projected(args.columnNames, args.row, f)
        /\ ret.rec.MatchedCount = 0

-----------------------------------------------------------------------------
(* The input tables *)

\* a row of the target table, in the order of oclcColumns
OclcRow(title, D, oclcId, pagination) ==
    LET d(f) == IF f \in D THEN X ELSE Y
    IN  <<d("MaterialType"), d("MonoOrSerial"), d("Date1"), d("Date2"),
          d("Form"), d("ISBN"), d("ISSN"), oclcId, title, E, E,
          d("Publisher"), d("Year"), pagination>>

\* a row of the candidate table, in the order of tindColumns
TindRow(title, D, tindId, oclcId, pagination) ==
    LET d(f) == IF f \in D THEN X ELSE Y
    IN  <<d("MaterialType"), d("MonoOrSerial"), d("Date1"), d("Date2"),
          d("Form"), tindId, oclcId, d("ISBN"), d("ISSN"), title, E, E,
          d("Publisher"), d("Year"), pagination>>

OclcHeader == [k \in 1..Len(oclcColumns) |-> <<"A">>]
TindHeader == [k \in 1..Len(tindColumns) |-> <<"A">>]

SixOfNine == Designated \ {"Date2", "ISSN", "Year"}
FiveOfNine == Designated \ {"Date1", "Date2", "ISBN", "ISSN"}

OclcRows ==
    {OclcRow(<<"a", "b">>, Designated, <<"1">>, X),
     OclcRow(<<"a", "b">>, Designated, <<"2">>, Y),
     OclcRow(<<"A", "b">>, SixOfNine, E, X),
     OclcRow(<<"b", "a">>, Designated, <<"3">>, X)}

TindRows ==
    {TindRow(<<"a", "b">>, Designated, <<"7">>, E, X),
     TindRow(<<"a", "b", " ">>, Designated, <<"8">>, <<"9">>, Y),
     TindRow(<<"a", "b">>, FiveOfNine, E, E, X)}

RECURSIVE SeqsOfLen(_, _)
SeqsOfLen(S, n) ==
    IF n = 0 THEN {<<>>}
    ELSE {Append(q, x) : q \in SeqsOfLen(S, n - 1), x \in S}

RECURSIVE SeqsUpTo(_, _)
SeqsUpTo(S, n) ==
    IF n = 0 THEN {<<>>} ELSE SeqsOfLen(S, n) \cup SeqsUpTo(S, n - 1)

\* the tables a run may be given: the header row and up to MaxTargets
\* (MaxCands) data rows
OclcTables == {<<OclcHeader>> \o rows : rows \in SeqsUpTo(OclcRows, MaxTargets)}
TindTables == {<<TindHeader>> \o rows : rows \in SeqsUpTo(TindRows, MaxCands)}

\* mkRecords: every row but the first, projected; ok is FALSE when a call of
\* RowToRecord panicked
mkRecords(table, columnNames) ==
    [ok |-> \A k \in 2..Len(table) : RowToRecord(columnNames, table[k]).ok,
     records |-> [k \in 1..(Len(table) - 1) |->
                     RowToRecord(columnNames, table[k + 1]).rec]]

-----------------------------------------------------------------------------
(* main of reconcile.go.  idx is the 1-based position of the running range  *)
(* loop; an entry of out is one line written to os.Stdout, with the loop    *)
(* that wrote it (at) and the target it was written for (no).               *)

FnIdle == args = <<>> /\ ret = <<>>

InitReconcile ==
    /\ pc = "load"
    /\ oclcTable \in OclcTables
    /\ tindTable \in TindTables
    /\ oclc = <<>> /\ tind = <<>>
    /\ matchedIDs = {}
    /\ idx = 0 /\ unmatched = <<>> /\ missing = <<>>
    /\ matchedCnt = 0 /\ unmatchedCnt = 0 /\ oclcCnt = 0
    /\ out = <<>> /\ scanLog = <<>>
    /\ FnIdle

\* the lines of one Scan as entries of out
Written(lines, at, no) ==
    [k \in 1..Len(lines) |-> [line |-> lines[k], at |-> at, no |-> no]]

\* one call of Scan as an entry of scanLog
Logged(pass, no, before, sc) ==
    [pass |-> pass, no |-> no, count |-> sc.count, before |-> before,
     lines |-> sc.lines]

\* lines 243-262: both tables decoded into records
Load ==
    /\ pc = "load"
    /\ LET o == mkRecords(oclcTable, oclcColumns)
           t == mkRecords(tindTable, tindColumns)
       IN  /\ oclc' = o.records
           /\ tind' = t.records
           /\ oclcCnt' = Len(o.records)
           /\ pc' = IF o.ok /\ t.ok THEN "strict" ELSE "panic"
    /\ idx' = 1
    /\ UNCHANGED <<oclcTable, tindTable, matchedIDs, unmatched, missing,
                   matchedCnt, unmatchedCnt, out, scanLog, args, ret>>

StrictStep_KeepsEvery ==
    /\ pc = "strict" /\ idx <= Len(oclc)
    /\ LET sc == Scan(oclc[idx], tind, FALSE)
       IN  /\ tind' = sc.sources
           /\ scanLog' = Append(scanLog, Logged("strict", idx, tind, sc))
           /\ IF sc.lines # <<>>
              THEN /\ out' = out \o Written(sc.lines, "strict", idx)
                   /\ matchedCnt' = matchedCnt + 1
                   /\ unmatched' = Append(unmatched, idx)
                   /\ UNCHANGED unmatchedCnt
              ELSE /\ unmatchedCnt' = unmatchedCnt + 1
                   /\ unmatched' = Append(unmatched, idx)
                   /\ UNCHANGED <<out, matchedCnt>>
    /\ idx' = idx + 1
    /\ UNCHANGED <<pc, oclcTable, tindTable, oclc, matchedIDs, missing,
                   oclcCnt, args, ret>>

\* lines 263-278: one iteration of the first loop
StrictStep ==
    /\ pc = "strict" /\ idx <= Len(oclc)
    /\ LET sc == Scan(oclc[idx], tind, FALSE)
       IN  /\ tind' = sc.sources
           /\ scanLog' = Append(scanLog, Logged("strict", idx, tind, sc))
           /\ IF sc.lines # <<>>
              THEN /\ out' = out \o Written(sc.lines, "strict", idx)
                   /\ matchedCnt' = matchedCnt + 1
                   /\ UNCHANGED <<unmatchedCnt, unmatched>>
              ELSE /\ unmatchedCnt' = unmatchedCnt + 1
                   /\ unmatched' = Append(unmatched, idx)
                   /\ UNCHANGED <<out, matchedCnt>>
    /\ idx' = idx + 1
    /\ UNCHANGED <<pc, oclcTable, tindTable, oclc, matchedIDs, missing,
                   oclcCnt, args, ret>>

\* lines 279-282: the first loop is over
StrictDone ==
    /\ pc = "strict" /\ idx > Len(oclc)
    /\ unmatchedCnt' = 0
    /\ missing' = <<>>
    /\ idx' = 1
    /\ pc' = "fuzzy"
    /\ UNCHANGED <<oclcTable, tindTable, oclc, tind, matchedIDs, unmatched,
                   matchedCnt, oclcCnt, out, scanLog, args, ret>>

FuzzyStep_DropsMissing ==
    /\ pc = "fuzzy" /\ idx <= Len(unmatched)
    /\ LET no == unmatched[idx]
           sc == Scan(oclc[no], tind, TRUE)
       IN  /\ tind' = sc.sources
           /\ scanLog' = Append(scanLog, Logged("fuzzy", no, tind, sc))
           /\ IF sc.lines # <<>>
              THEN /\ out' = out \o Written(sc.lines, "fuzzy", no)
                   /\ matchedCnt' = matchedCnt + 1
                   /\ UNCHANGED <<unmatchedCnt, missing>>
              ELSE /\ unmatchedCnt' = unmatchedCnt + 1
                   /\ UNCHANGED <<out, matchedCnt, missing>>
    /\ idx' = idx + 1
    /\ UNCHANGED <<pc, oclcTable, tindTable, oclc, matchedIDs, unmatched,
                   oclcCnt, args, ret>>

\* lines 283-299: one iteration of the second loop
FuzzyStep ==
    /\ pc = "fuzzy" /\ idx <= Len(unmatched)
    /\ LET no == unmatched[idx]
           sc == Scan(oclc[no], tind, TRUE)
       IN  /\ tind' = sc.sources
           /\ scanLog' = Append(scanLog, Logged("fuzzy", no, tind, sc))
           /\ IF sc.lines # <<>>
              THEN /\ out' = out \o Written(sc.lines, "fuzzy", no)
                   /\ matchedCnt' = matchedCnt + 1
                   /\ UNCHANGED <<unmatchedCnt, missing>>
              ELSE /\ unmatchedCnt' = unmatchedCnt + 1
                   /\ missing' = Append(missing, no)
                   /\ UNCHANGED <<out, matchedCnt>>
    /\ idx' = idx + 1
    /\ UNCHANGED <<pc, oclcTable, tindTable, oclc, matchedIDs, unmatched,
                   oclcCnt, args, ret>>

\* line 300: the second loop is over
FuzzyDone ==
    /\ pc = "fuzzy" /\ idx > Len(unmatched)
    /\ idx' = 1
    /\ pc' = "missing"
    /\ UNCHANGED <<oclcTable, tindTable, oclc, tind, matchedIDs, unmatched,
                   missing, matchedCnt, unmatchedCnt, oclcCnt, out, scanLog,
                   args, ret>>

\* lines 301-304: one iteration of the last loop.  Line 302 is written
\* oclc.MatchCount = 0, which names no field of a slice; it is read as the
\* assignment to the record about to be printed, oclc[no].MatchedCount = 0.
EmitStep ==
    /\ pc = "missing" /\ idx <= Len(missing)
    /\ LET no == missing[idx]
       IN  /\ oclc' = [oclc EXCEPT ![no].MatchedCount = 0]
           /\ out' = Append(out, [line |-> String(oclc'[no]),
                                  at |-> "missing", no |-> no])
    /\ idx' = idx + 1
    /\ UNCHANGED <<pc, oclcTable, tindTable, tind, matchedIDs, unmatched,
                   missing, matchedCnt, unmatchedCnt, oclcCnt, scanLog,
                   args, ret>>

\* line 305: the last loop is over
EmitDone ==
    /\ pc = "missing" /\ idx > Len(missing)
    /\ pc' = "done"
    /\ UNCHANGED <<oclcTable, tindTable, oclc, tind, matchedIDs, idx,
                   unmatched, missing, matchedCnt, unmatchedCnt, oclcCnt, out,
                   scanLog, args, ret>>

NextReconcile ==
    \/ Load
    \/ StrictStep
    \/ StrictDone
    \/ FuzzyStep
    \/ FuzzyDone
    \/ EmitStep
    \/ EmitDone

SpecReconcile == InitReconcile /\ [][NextReconcile]_vars

-----------------------------------------------------------------------------
(* Claims about main of reconcile.go *)

\* the records as mkRecords loaded them
LoadedTargets == mkRecords(oclcTable, oclcColumns).records
LoadedCandidates == mkRecords(tindTable, tindColumns).records

Running == pc \in {"strict", "fuzzy", "missing", "scan", "done"}

\* C3 as stated: Merge leaves both inputs as they are, so that after any
\* sequence of Scan calls every candidate and every target still has the
\* field values it was loaded with.
C3_InputsUnchanged ==
    Running =>
        LET candidates == LoadedCandidates
            targets == LoadedTargets
        IN  /\ \A j \in 1..Len(tind) : \A f \in TextFields :
                  tind[j][f] = candidates[j][f]
            /\ \A n \in 1..Len(oclc) : \A f \in TextFields :
                  oclc[n][f] = targets[n][f]

\* the candidates of a logged call that Match accepts, and the k-th of them
\* in candidate order
Matching(e) ==
    {j \in 1..Len(e.before) : Match(oclc[e.no], e.before[j], e.pass = "fuzzy")}

Nth(S, k) == CHOOSE j \in S : Cardinality({n \in S : n < j}) = k - 1

\* positions of Record.String that print neither identifier nor the count
PlainColumns == (1..15) \ {6, 7}

\* C4: when exactly k >= 1 candidates satisfy Match, Scan returns exactly k
\* lines, one per matching candidate in candidate order, each carrying
\* MatchedCount = k; when none does it returns the empty result.
C4_ScanLinesAndCount ==
    \A p \in 1..Len(scanLog) :
        LET e == scanLog[p]
            M == Matching(e)
            k == Cardinality(M)
        IN  /\ Len(e.lines) = k
            /\ \A n \in 1..k :
                  LET candidate == String(e.before[Nth(M, n)])
                  IN  /\ e.lines[n][16] = k
                      /\ \A c \in PlainColumns : e.lines[n][c] = candidate[c]

C4_Witness ==
    \E p \in 1..Len(scanLog) :
        /\ Len(scanLog[p].lines) = 2
        /\ scanLog[p].lines[1] # scanLog[p].lines[2]
        /\ scanLog[p].lines[1][16] = 2

Scanned(pass) == {scanLog[p].no : p \in {q \in 1..Len(scanLog) : scanLog[q].pass = pass}}

\* the targets a pass scanned and found a match for, or found none for
Found(pass) ==
    {scanLog[p].no : p \in {q \in 1..Len(scanLog) :
                               scanLog[q].pass = pass /\ scanLog[q].count > 0}}
NotFound(pass) ==
    {scanLog[p].no : p \in {q \in 1..Len(scanLog) :
                               scanLog[q].pass = pass /\ scanLog[q].count = 0}}

\* C5: every target is scanned exactly once by the strict pass; the fuzzy
\* pass scans exactly the targets the strict pass found no match for, each
\* once and only after the strict pass is over for all targets; no target
\* returns to the strict pass.
C5_PassOrder ==
    /\ \A p, q \in 1..Len(scanLog) :
          /\ (p # q /\ scanLog[p].pass = scanLog[q].pass) =>
                scanLog[p].no # scanLog[q].no
          /\ (scanLog[p].pass = "fuzzy" /\ scanLog[q].pass = "strict") => q < p
    /\ Scanned("fuzzy") \subseteq NotFound("strict")
    /\ Scanned("fuzzy") # {} => Scanned("strict") = 1..Len(oclc)
    /\ pc \in {"missing", "done"} =>
          /\ Scanned("strict") = 1..Len(oclc)
          /\ Scanned("fuzzy") = NotFound("strict")

C5_Witness ==
    /\ pc = "done"
    /\ Scanned("fuzzy") # {}
    /\ Found("strict") # {}

\* the lines written for target n by the last loop
UnmatchedLines(n) ==
    {p \in 1..Len(out) : out[p].at = "missing" /\ out[p].no = n}

\* C6: every target ends in exactly one of StrictMatched, FuzzyMatched and
\* FuzzyUnmatched; a target neither pass matched is written exactly once, as
\* its own record with MatchedCount = 0, and a matched target is never
\* written as an unmatched line.
C6_TerminalStates ==
    pc = "done" =>
        LET targets == LoadedTargets
        IN
        /\ \A n \in 1..Len(oclc) :
              /\ Cardinality({st \in {"StrictMatched", "FuzzyMatched", "FuzzyUnmatched"} :
                     \/ st = "StrictMatched" /\ n \in Found("strict")
                     \/ st = "FuzzyMatched" /\ n \in Found("fuzzy")
                     \/ st = "FuzzyUnmatched" /\ n \in NotFound("fuzzy")}) = 1
              /\ n \in NotFound("fuzzy") =>
                    /\ Cardinality(UnmatchedLines(n)) = 1
                    /\ \A p \in UnmatchedLines(n) :
                          out[p].line = String([targets[n] EXCEPT !.MatchedCount = 0])
              /\ n \notin NotFound("fuzzy") => UnmatchedLines(n) = {}
        /\ \A p \in 1..Len(out) :
              out[p].at # "missing" => out[p].line[16] > 0

C6_Witness ==
    /\ pc = "done"
    /\ NotFound("fuzzy") # {}
    /\ Found("strict") \cup Found("fuzzy") # {}
    /\ \E p \in 1..Len(out) : out[p].at = "missing"

-----------------------------------------------------------------------------
(* main of reconcile2.go *)

\* contents of matched-ids.csv after the loop of lines 242-247: the set of
\* its trimmed, non-empty lines
IDSets == {{<<"1">>}, {<<"2">>, <<"3">>}}

InitResume ==
    /\ pc = "load"
    /\ oclcTable \in OclcTables
    /\ tindTable \in TindTables
    /\ oclc = <<>> /\ tind = <<>>
    /\ matchedIDs \in IDSets
    /\ idx = 0 /\ unmatched = <<>> /\ missing = <<>>
    /\ matchedCnt = 0 /\ unmatchedCnt = 0 /\ oclcCnt = 0
    /\ out = <<>> /\ scanLog = <<>>
    /\ FnIdle

\* lines 262-280: both tables decoded into records
Load2 ==
    /\ pc = "load"
    /\ LET o == mkRecords(oclcTable, oclcColumns)
           t == mkRecords(tindTable, tindColumns)
       IN  /\ oclc' = o.records
           /\ tind' = t.records
           /\ oclcCnt' = Len(o.records)
           /\ pc' = IF o.ok /\ t.ok THEN "scan" ELSE "panic"
    /\ idx' = 1
    /\ UNCHANGED <<oclcTable, tindTable, matchedIDs, unmatched, missing,
                   matchedCnt, unmatchedCnt, out, scanLog, args, ret>>

Step2_KeepsCount ==
    /\ pc = "scan" /\ idx <= Len(oclc)
    /\ IF oclc[idx].OCLC \in matchedIDs
       THEN UNCHANGED <<oclcCnt, oclc, tind, out, matchedCnt, unmatchedCnt, scanLog>>
       ELSE LET sc == Scan(oclc[idx], tind, FALSE)
            IN  /\ tind' = sc.sources
                /\ scanLog' = Append(scanLog, Logged("strict", idx, tind, sc))
                /\ UNCHANGED oclcCnt
                /\ IF sc.lines # <<>>
                   THEN /\ out' = out \o Written(sc.lines, "matched", idx)
                        /\ matchedCnt' = matchedCnt + 1
                        /\ UNCHANGED <<oclc, unmatchedCnt>>
                   ELSE /\ oclc' = [oclc EXCEPT ![idx].MatchedCount = 0]
                        /\ out' = Append(out, [line |-> sc.lines, at |-> "unmatched",
                                               no |-> idx])
                        /\ unmatchedCnt' = unmatchedCnt + 1
                        /\ UNCHANGED matchedCnt
    /\ idx' = idx + 1
    /\ UNCHANGED <<pc, oclcTable, tindTable, matchedIDs, unmatched, missing,
                   args, ret>>

\* lines 281-303: one iteration of the loop.  For a target without match the
\* string written at line 291 is s, which is empty there: the line is blank.
Step2 ==
    /\ pc = "scan" /\ idx <= Len(oclc)
    /\ IF oclc[idx].OCLC \in matchedIDs
       THEN /\ oclcCnt' = oclcCnt - 1
            /\ UNCHANGED <<oclc, tind, out, matchedCnt, unmatchedCnt, scanLog>>
       ELSE LET sc == Scan(oclc[idx], tind, FALSE)
            IN  /\ tind' = sc.sources
                /\ scanLog' = Append(scanLog, Logged("strict", idx, tind, sc))
                /\ UNCHANGED oclcCnt
                /\ IF sc.lines # <<>>
                   THEN /\ out' = out \o Written(sc.lines, "matched", idx)
                        /\ matchedCnt' = matchedCnt + 1
                        /\ UNCHANGED <<oclc, unmatchedCnt>>
                   ELSE /\ oclc' = [oclc EXCEPT ![idx].MatchedCount = 0]
                        /\ out' = Append(out, [line |-> sc.lines, at |-> "unmatched",
                                               no |-> idx])
                        /\ unmatchedCnt' = unmatchedCnt + 1
                        /\ UNCHANGED matchedCnt
    /\ idx' = idx + 1
    /\ UNCHANGED <<pc, oclcTable, tindTable, matchedIDs, unmatched, missing,
                   args, ret>>

\* line 304: the loop is over
Done2 ==
    /\ pc = "scan" /\ idx > Len(oclc)
    /\ pc' = "done"
    /\ UNCHANGED <<oclcTable, tindTable, oclc, tind, matchedIDs, idx,
                   unmatched, missing, matchedCnt, unmatchedCnt, oclcCnt, out,
                   scanLog, args, ret>>

NextResume ==
    \/ Load2
    \/ Step2
    \/ Done2

SpecResume == InitResume /\ [][NextResume]_vars

\* the targets whose identifier is in the Resume Index
Indexed ==
    LET loaded == LoadedTargets
    IN  {n \in 1..Len(oclc) : loaded[n].OCLC \in matchedIDs}

\* the targets the loop has dealt with so far
Visited == 1..(idx - 1)

\* C7: a target whose identifier is in the Resume Index is never passed to
\* Scan and produces no output line, and it is taken out of the denominator:
\* at the end oclcCnt is the number of targets not in the index, which is
\* matchedCnt + unmatchedCnt.
C7_IndexedSkipped ==
    pc \in {"scan", "done"} =>
        LET skipped == Indexed
        IN  /\ \A n \in skipped :
                  /\ n \notin Scanned("strict")
                  /\ \A p \in 1..Len(out) : out[p].no # n
            /\ oclcCnt = Len(oclc) - Cardinality(skipped \cap Visited)
            /\ matchedCnt + unmatchedCnt = Cardinality(Visited \ skipped)
            /\ pc = "done" =>
                  /\ oclcCnt = Cardinality((1..Len(oclc)) \ skipped)
                  /\ oclcCnt = matchedCnt + unmatchedCnt

C7_Witness ==
    /\ pc = "done"
    /\ Indexed # {}
    /\ Scanned("strict") # {}
    /\ oclcCnt = 1

\* C8 as stated: every target that is not in the Resume Index and for which
\* Scan finds no match appears exactly once in the output, as its own record
\* line with MatchedCount = 0.
C8_UnmatchedWritten ==
    pc = "done" =>
        LET targets == LoadedTargets
        IN  \A n \in NotFound("strict") :
                /\ Cardinality({p \in 1..Len(out) : out[p].no = n}) = 1
                /\ \A p \in 1..Len(out) :
                      out[p].no = n =>
                          out[p].line = String([targets[n] EXCEPT !.MatchedCount = 0])

-----------------------------------------------------------------------------
(* Scan and main of part_000: the tables stay rows, and every row is       *)
(* projected when it is used.                                               *)

\* The first loop of Scan from row i (1-based) on, the first row skipped:
\* target as the calls of Merge have left it, the number of records appended
\* to matched (Merge returns its target, so each is the pointer target), the
\* rows projected so far; ok is FALSE when a call of RowToRecord panicked.
RECURSIVE Scan1Loop(_, _, _, _, _, _)
Scan1Loop(target, columnNames, table, i, mCnt, rows) ==
    IF i > Len(table)
    THEN [ok |-> TRUE, target |-> target, count |-> mCnt, rows |-> rows]
    ELSE IF i > 1
    THEN LET source == RowToRecord(columnNames, table[i])
         IN  IF ~source.ok
             THEN [ok |-> FALSE, target |-> target, count |-> mCnt, rows |-> rows]
             ELSE IF Match1(target, source.rec)
             THEN Scan1Loop(Merge1(target, source.rec).target, columnNames,
                            table, i + 1, mCnt + 1, Append(rows, i))
             ELSE Scan1Loop(target, columnNames, table, i + 1, mCnt,
                            Append(rows, i))
    ELSE Scan1Loop(target, columnNames, table, i + 1, mCnt, rows)

\* Scan of part_000: the lines of the returned string are mCnt prints of the
\* one target record
Scan1(target, columnNames, table) ==
    LET loop == Scan1Loop(target, columnNames, table, 1, 0, <<>>)
        final == IF loop.count > 0
                 THEN [loop.target EXCEPT !.MatchedCount = loop.count]
                 ELSE loop.target
    IN  [ok |-> loop.ok,
         target |-> final,
         count |-> loop.count,
         rows |-> loop.rows,
         lines |-> [k \in 1..loop.count |-> String(final)]]

InitSingle ==
    /\ pc = "scan"
    /\ oclcTable \in OclcTables
    /\ tindTable \in TindTables
    /\ oclc = <<>> /\ tind = <<>>
    /\ matchedIDs = {}
    /\ idx = 1 /\ unmatched = <<>> /\ missing = <<>>
    /\ matchedCnt = 0 /\ unmatchedCnt = 0 /\ oclcCnt = 0
    /\ out = <<>> /\ scanLog = <<>>
    /\ FnIdle

\* lines 236-253: one iteration of the loop over the rows of the target
\* table; the test i > 1 of line 237 is idx > 2 at 1-based positions
Step1 ==
    /\ pc = "scan" /\ idx <= Len(oclcTable)
    /\ IF idx > 2
       THEN LET rec == RowToRecord(oclcColumns, oclcTable[idx])
                sc == Scan1(rec.rec, tindColumns, tindTable)
            IN  IF rec.ok /\ sc.ok
                THEN /\ scanLog' = Append(scanLog,
                            [pass |-> "single", no |-> idx, count |-> sc.count,
                             rows |-> sc.rows, lines |-> sc.lines])
                     /\ IF sc.lines # <<>>
                        THEN /\ out' = out \o Written(sc.lines, "matched", idx)
                             /\ matchedCnt' = matchedCnt + 1
                             /\ UNCHANGED unmatchedCnt
                        ELSE /\ unmatchedCnt' = unmatchedCnt + 1
                             /\ UNCHANGED <<out, matchedCnt>>
                     /\ UNCHANGED pc
                ELSE /\ pc' = "panic"
                     /\ UNCHANGED <<scanLog, out, matchedCnt, unmatchedCnt>>
       ELSE UNCHANGED <<pc, scanLog, out, matchedCnt, unmatchedCnt>>
    /\ idx' = idx + 1
    /\ UNCHANGED <<oclcTable, tindTable, oclc, tind, matchedIDs, unmatched,
                   missing, oclcCnt, args, ret>>

\* line 254: the loop is over
Done1 ==
    /\ pc = "scan" /\ idx > Len(oclcTable)
    /\ pc' = "done"
    /\ UNCHANGED <<oclcTable, tindTable, oclc, tind, matchedIDs, idx,
                   unmatched, missing, matchedCnt, unmatchedCnt, oclcCnt, out,
                   scanLog, args, ret>>

NextSingle ==
    \/ Step1
    \/ Done1

SpecSingle == InitSingle /\ [][NextSingle]_vars

\* the positions of the rows of a table after its first, in table order
LaterRows(table) == [k \in 1..(Len(table) - 1) |-> k + 1]

\* C11 (for part_000): exactly the first row of each table is the header;
\* every later row of the target table is processed as a target, in table
\* order, and every later row of the candidate table is a candidate of every
\* scan, in table order.
C11_OnlyFirstRowSkipped ==
    pc = "done" =>
        /\ [p \in 1..Len(scanLog) |-> scanLog[p].no] = LaterRows(oclcTable)
        /\ \A p \in 1..Len(scanLog) : scanLog[p].rows = LaterRows(tindTable)

-----------------------------------------------------------------------------
(* Match and the identifier fields, in main of reconcile.go *)

\* identifier values a second run may hold in place of the loaded ones
IdValues == {E, <<"1">>}

\* record r with other identifiers
WithIds(r, tindId, oclcId) == [r EXCEPT !.Tind = tindId, !.OCLC = oclcId]

\* C12: Match does not depend on Tind and OCLC.  For the call of Scan just
\* made: whatever identifiers the target and a candidate are given, Match on
\* the records as loaded gives what Match gave on the records as they were at
\* the call (candidates with identifiers filled by earlier calls of Merge);
\* so the candidates the target matched in this pass are those computed from
\* the loaded records alone, whatever was scanned before.
C12_MatchIgnoresIdentifiers ==
    scanLog # <<>> =>
        \A e \in {scanLog[Len(scanLog)]} :
        \A target \in {LoadedTargets[e.no]}, candidates \in {LoadedCandidates} :
        \A asLoaded \in {{j \in 1..Len(candidates) :
                              Match(target, candidates[j], e.pass = "fuzzy")}} :
            /\ \A j \in 1..Len(e.before) :
                  \A atCall \in {Match(oclc[e.no], e.before[j], e.pass = "fuzzy")} :
                  \A t1 \in IdValues, o1 \in IdValues,
                     t2 \in IdValues, o2 \in IdValues :
                      Match(WithIds(target, t1, o1),
                            WithIds(candidates[j], t2, o2), e.pass = "fuzzy") = atCall
            /\ Matching(e) = asLoaded
            /\ e.count = Cardinality(asLoaded)

C12_Witness ==
    /\ scanLog # <<>>
    /\ LET e == scanLog[Len(scanLog)]
           candidates == LoadedCandidates
       IN  \E j \in 1..Len(e.before) :
               /\ candidates[j].OCLC = E
               /\ e.before[j].OCLC # E
               /\ e.before[j].OCLC # oclc[e.no].OCLC
               /\ Match(oclc[e.no], e.before[j], e.pass = "fuzzy")

====
